---- MODULE Spec2Model ----
(* Soccer-field booking backend (src/main.py): the store (time slots,      *)
(* bookings, users, inventory rows), the HTTP handlers as atomic actions,  *)
(* the start-up seeding, and create_booking split into its two database    *)
(* steps for requests served by concurrent workers.                        *)
EXTENDS Integers, Sequences, FiniteSets, TLC

VARIABLES timeSlots, bookings, users, inventory, now, startups, resp, reqs

vars == <<timeSlots, bookings, users, inventory, now, startups, resp, reqs>>

(* ------------------------------ bounds ------------------------------ *)

MaxBookings == 2
MaxTime == 1
MaxInventory == 2
MaxCheckDate == 2
MaxStartups == 2
MaxPreRows == 2
NumRequests == 2

(* --------------------------- enumerations --------------------------- *)

BOOKED == "Booked"
DEPOSIT_PAID == "Deposit Paid"
DONE == "Done"
RESCHEDULED == "Rescheduled"
CANCELLED == "Cancelled"

BookingStatus == {BOOKED, DEPOSIT_PAID, DONE, RESCHEDULED, CANCELLED}

ADMIN == "admin"
MANAGER == "manager"
OWNER == "owner"

UserRole == {ADMIN, MANAGER, OWNER}

(* ------------------------------ helpers ----------------------------- *)

SetMax(S) == CHOOSE x \in S : \A y \in S : y <= x

\* An autoincrement primary key: one more than the largest id of the table.
NextId(table) ==
    IF table = <<>> THEN 1
    ELSE SetMax({table[i].id : i \in DOMAIN table}) + 1

\* Query(...).first() over the positions a filter keeps: the first position, 0
\* (None) when the filter keeps no row.
First(positions) ==
    IF positions = {} THEN 0
    ELSE CHOOSE i \in positions : \A j \in positions : i <= j

NoBody == <<>>

Response(op, code, user, arg, body) ==
    [op |-> op, code |-> code, user |-> user, arg |-> arg, body |-> body]

(* --------------------------- time slots ----------------------------- *)

slots ==
    << [shift_name |-> "Shift 1", start_time |-> "06:00", end_time |-> "07:30", price |-> 500000],
       [shift_name |-> "Shift 2", start_time |-> "07:30", end_time |-> "09:00", price |-> 500000],
       [shift_name |-> "Shift 3", start_time |-> "09:00", end_time |-> "10:30", price |-> 400000],
       [shift_name |-> "Shift 4", start_time |-> "10:30", end_time |-> "12:00", price |-> 400000],
       [shift_name |-> "Shift 5", start_time |-> "13:00", end_time |-> "14:30", price |-> 400000],
       [shift_name |-> "Shift 6", start_time |-> "14:30", end_time |-> "16:00", price |-> 400000],
       [shift_name |-> "Shift 7", start_time |-> "16:00", end_time |-> "17:30", price |-> 600000],
       [shift_name |-> "Shift 8", start_time |-> "18:30", end_time |-> "20:00", price |-> 800000],
       [shift_name |-> "Shift 9", start_time |-> "20:00", end_time |-> "21:30", price |-> 800000],
       [shift_name |-> "Shift 10", start_time |-> "21:30", end_time |-> "23:00", price |-> 800000] >>

TimeSlotRow(id, slot) ==
    [id |-> id, shift_name |-> slot.shift_name, start_time |-> slot.start_time,
     end_time |-> slot.end_time, price |-> slot.price]

\* A mutant of SeedSlot: the row is added without the look-up by shift name.
SeedSlotUnchecked(table, slot) ==
    Append(table, TimeSlotRow(NextId(table), slot))

\* One turn of the loop of init_time_slots: add the slot unless a row with its
\* shift name exists.
SeedSlot(table, slot) ==
    IF First({i \in DOMAIN table : table[i].shift_name = slot.shift_name}) = 0
    THEN Append(table, TimeSlotRow(NextId(table), slot))
    ELSE table

RECURSIVE SeedFrom(_, _)
SeedFrom(table, i) ==
    IF i > Len(slots) THEN table
    ELSE SeedFrom(SeedSlot(table, slots[i]), i + 1)

init_time_slots(table) == SeedFrom(table, 1)

\* startup_event: the process starts and seeds the time slots.
startup_event(limit) ==
    /\ startups < limit
    /\ timeSlots' = init_time_slots(timeSlots)
    /\ startups' = startups + 1
    /\ resp' = Response("startup", 0, 0, <<>>, NoBody)
    /\ UNCHANGED <<bookings, users, inventory, now, reqs>>

(* ------------------------- users and tokens ------------------------- *)

\* app.core.auth is not part of the sources: a hash is modelled as a tagged
\* copy of the password, which verifies exactly the password it was made of.
get_password_hash(password) == <<"hash", password>>

verify_password(plain, hashed) == get_password_hash(plain) = hashed

ACCESS_TOKEN_EXPIRE_MINUTES == 1

\* The accounts created out of band, with the passwords their owners chose: one
\* user of each role of the enumeration and one whose role column holds
\* another string.
Accounts ==
    << [name |-> "ada", password |-> "pw-a", role |-> ADMIN],
       [name |-> "max", password |-> "pw-b", role |-> MANAGER],
       [name |-> "oli", password |-> "pw-a", role |-> OWNER],
       [name |-> "sam", password |-> "pw-b", role |-> "staff"] >>

UserRow(id, account) ==
    [id |-> id, username |-> account.name,
     email |-> <<account.name, "field.example">>,
     password |-> get_password_hash(account.password), role |-> account.role,
     last_login |-> -1, last_logout |-> -1]

InitUsers == [i \in DOMAIN Accounts |-> UserRow(i, Accounts[i])]

Emails == {InitUsers[i].email : i \in DOMAIN InitUsers}
Passwords == {"pw-a", "pw-b"}

Token(sub, exp, signed) == [sub |-> sub, exp |-> exp, signed |-> signed]

NoToken == Token(<<>>, 0, FALSE)

create_access_token(sub, expires_delta) == Token(sub, now + expires_delta, TRUE)

\* The user a bearer token resolves to, 0 when the dependency answers 401: the
\* token is missing, not signed by this service, expired, or names no user.
get_current_active_user(token) ==
    IF token.signed /\ now <= token.exp
    THEN First({i \in DOMAIN users : users[i].email = token.sub})
    ELSE 0

(* ----------------------------- bookings ----------------------------- *)

\* What a response record keeps of a booking request: its date and slot.
BookingKey(booking) == <<booking.booking_date, booking.time_slot_id>>

\* A mutant of time_slot: the filter on the id is lost.
time_slot_unfiltered(booking) == First(DOMAIN timeSlots)

\* create_booking's look-up of the time slot by id.
time_slot(booking) ==
    First({i \in DOMAIN timeSlots : timeSlots[i].id = booking.time_slot_id})

\* A mutant of existing_booking: Deposit Paid is left out of the status list.
existing_booking_booked_only(booking) ==
    First({i \in DOMAIN bookings :
              /\ bookings[i].booking_date = booking.booking_date
              /\ bookings[i].time_slot_id = booking.time_slot_id
              /\ bookings[i].status = BOOKED})

\* A mutant of existing_booking: the filter on the status is lost.
existing_booking_any_status(booking) ==
    First({i \in DOMAIN bookings :
              /\ bookings[i].booking_date = booking.booking_date
              /\ bookings[i].time_slot_id = booking.time_slot_id})

\* create_booking's look-up of a booking that holds the slot on the date.
existing_booking(booking) ==
    First({i \in DOMAIN bookings :
              /\ bookings[i].booking_date = booking.booking_date
              /\ bookings[i].time_slot_id = booking.time_slot_id
              /\ bookings[i].status \in {BOOKED, DEPOSIT_PAID}})

\* models.Booking(**booking.dict()) as the insert stores it: the key and the
\* column defaults filled in.
db_booking(booking) ==
    [id |-> NextId(bookings),
     customer_name |-> booking.customer_name, email |-> booking.email,
     phone |-> booking.phone, booking_date |-> booking.booking_date,
     time_slot_id |-> booking.time_slot_id, notes |-> booking.notes,
     status |-> BOOKED, created_at |-> now, updated_at |-> now]

\* A mutant of insert_booking: a unique constraint on (date, slot) of the
\* bookings that hold a slot rejects the row.
insert_booking_unique(row) ==
    IF \E i \in DOMAIN bookings :
          /\ bookings[i].booking_date = row.booking_date
          /\ bookings[i].time_slot_id = row.time_slot_id
          /\ bookings[i].status \in {BOOKED, DEPOSIT_PAID}
    THEN bookings
    ELSE Append(bookings, row)

\* db.add, db.commit: no constraint of the bookings table rejects a row.
insert_booking(row) == Append(bookings, row)

create_booking(booking) ==
    /\ startups > 0
    /\ IF time_slot(booking) = 0
       THEN /\ resp' = Response("create_booking", 404, 0, BookingKey(booking), NoBody)
            /\ UNCHANGED bookings
       ELSE IF existing_booking(booking) # 0
       THEN /\ resp' = Response("create_booking", 400, 0, BookingKey(booking), NoBody)
            /\ UNCHANGED bookings
       ELSE /\ Len(bookings) < MaxBookings
            /\ bookings' = insert_booking(db_booking(booking))
            /\ resp' = Response("create_booking", 200, 0, BookingKey(booking),
                                db_booking(booking).id)
    /\ UNCHANGED <<timeSlots, users, inventory, now, startups, reqs>>

BookingRoles == {ADMIN, MANAGER, OWNER}

\* The page of get_all_bookings: offset(skip).limit(limit) in storage order.
Page(skip, limit) ==
    [k \in 1 .. (IF Len(bookings) - skip < limit
                 THEN (IF Len(bookings) > skip THEN Len(bookings) - skip ELSE 0)
                 ELSE limit) |-> bookings[skip + k].id]

get_all_bookings(token, skip, limit) ==
    /\ startups > 0
    /\ LET current_user == get_current_active_user(token) IN
       IF current_user = 0
       THEN resp' = Response("get_all_bookings", 401, 0, <<>>, NoBody)
       ELSE IF users[current_user].role \notin BookingRoles
       THEN resp' = Response("get_all_bookings", 403, current_user,
                             <<>>, NoBody)
       ELSE resp' = Response("get_all_bookings", 200, current_user,
                             <<>>, Page(skip, limit))
    /\ UNCHANGED <<timeSlots, bookings, users, inventory, now, startups, reqs>>

\* update_booking_status's look-up of the booking by id.
booking_by_id(booking_id) ==
    First({i \in DOMAIN bookings : bookings[i].id = booking_id})

\* A mutant of set_status: the timestamp is not refreshed.
set_status_only(row, status) == [row EXCEPT !.status = status]

\* The two assignments of update_booking_status.
set_status(row, status) ==
    [row EXCEPT !.status = status, !.updated_at = now]

update_booking_status(token, booking_id, status) ==
    /\ startups > 0
    /\ LET current_user == get_current_active_user(token)
           booking == booking_by_id(booking_id)
           arg == <<booking_id, status>>
       IN
       IF current_user = 0
       THEN /\ resp' = Response("update_booking_status", 401, 0, arg, NoBody)
            /\ UNCHANGED bookings
       ELSE IF users[current_user].role \notin BookingRoles
       THEN /\ resp' = Response("update_booking_status", 403, current_user,
                                arg, NoBody)
            /\ UNCHANGED bookings
       ELSE IF booking = 0
       THEN /\ resp' = Response("update_booking_status", 404, current_user,
                                arg, NoBody)
            /\ UNCHANGED bookings
       ELSE /\ bookings' = [bookings EXCEPT
                                ![booking] = set_status(bookings[booking], status)]
            /\ resp' = Response("update_booking_status", 200, current_user,
                                arg, NoBody)
    /\ UNCHANGED <<timeSlots, users, inventory, now, startups, reqs>>

\* Time passes between two requests.
Tick ==
    /\ now < MaxTime
    /\ now' = now + 1
    /\ UNCHANGED <<timeSlots, bookings, users, inventory, startups, resp, reqs>>

(* ------------------------------ login ------------------------------- *)

\* A mutant of authenticate: the password is not verified.
authenticate_by_email(username, password) ==
    First({i \in DOMAIN users : users[i].email = username})

\* The user login accepts, 0 when it answers 401: the row with the e-mail,
\* provided the password verifies against its hash.
authenticate(username, password) ==
    LET user == First({i \in DOMAIN users : users[i].email = username}) IN
    IF user = 0 \/ ~verify_password(password, users[user].password)
    THEN 0
    ELSE user

login(username, password) ==
    /\ startups > 0
    /\ LET user == authenticate(username, password) IN
       IF user = 0
       THEN /\ resp' = Response("login", 401, 0, username, NoBody)
            /\ UNCHANGED users
       ELSE /\ users' = [users EXCEPT ![user].last_login = now]
            /\ resp' = Response("login", 200, 0, username,
                   create_access_token(users[user].email,
                                       ACCESS_TOKEN_EXPIRE_MINUTES))
    /\ UNCHANGED <<timeSlots, bookings, inventory, now, startups, reqs>>

(* ---------------------------- inventory ----------------------------- *)

\* A mutant of InventoryCreateRoles: the role list of the other endpoints.
InventoryCreateRolesAll == {ADMIN, MANAGER, OWNER}

InventoryCreateRoles == {ADMIN, MANAGER}

InventoryLatestRoles == {ADMIN, MANAGER, OWNER}

\* models.Inventory(**inventory.dict(), updated_by=current_user.id)
db_inventory(inv, current_user) ==
    [id |-> NextId(inventory), balls |-> inv.balls, shoes |-> inv.shoes,
     jerseys |-> inv.jerseys, gloves |-> inv.gloves,
     check_date |-> inv.check_date, updated_by |-> users[current_user].id]

create_inventory_check(token, inv) ==
    /\ startups > 0
    /\ LET current_user == get_current_active_user(token) IN
       IF current_user = 0
       THEN /\ resp' = Response("create_inventory_check", 401, 0, inv.check_date,
                                NoBody)
            /\ UNCHANGED inventory
       ELSE IF users[current_user].role \notin InventoryCreateRoles
       THEN /\ resp' = Response("create_inventory_check", 403, current_user,
                                inv.check_date, NoBody)
            /\ UNCHANGED inventory
       ELSE /\ Len(inventory) < MaxInventory
            /\ inventory' = Append(inventory, db_inventory(inv, current_user))
            /\ resp' = Response("create_inventory_check", 200, current_user,
                                inv.check_date, db_inventory(inv, current_user).id)
    /\ UNCHANGED <<timeSlots, bookings, users, now, startups, reqs>>

\* A mutant of latest_inventory: the row inserted last, whatever its date.
latest_inventory_by_id ==
    IF inventory = <<>> THEN {} ELSE {Len(inventory)}

\* order_by(check_date.desc()).first(): the rows the ordering may put first,
\* those no other row has a later check date than.
latest_inventory ==
    {i \in DOMAIN inventory :
        \A j \in DOMAIN inventory :
            inventory[j].check_date <= inventory[i].check_date}

get_latest_inventory(token) ==
    /\ startups > 0
    /\ LET current_user == get_current_active_user(token) IN
       IF current_user = 0
       THEN resp' = Response("get_latest_inventory", 401, 0, <<>>, NoBody)
       ELSE IF users[current_user].role \notin InventoryLatestRoles
       THEN resp' = Response("get_latest_inventory", 403, current_user,
                             <<>>, NoBody)
       ELSE IF latest_inventory = {}
       THEN resp' = Response("get_latest_inventory", 404, current_user,
                             <<>>, NoBody)
       ELSE \E i \in latest_inventory :
              resp' = Response("get_latest_inventory", 200, current_user,
                               <<>>, inventory[i].id)
    /\ UNCHANGED <<timeSlots, bookings, users, inventory, now, startups, reqs>>

(* --------------- create_booking served by several workers ----------- *)

Idle == [pc |-> "idle", booking |-> <<>>, code |-> 0, body |-> NoBody]

\* Lines 104-116 of create_booking in worker r: the two look-ups.
create_booking_check(r, booking) ==
    /\ startups > 0
    /\ reqs[r].pc = "idle"
    /\ reqs' = [reqs EXCEPT ![r] =
          IF time_slot(booking) = 0
          THEN [pc |-> "done", booking |-> booking, code |-> 404, body |-> NoBody]
          ELSE IF existing_booking(booking) # 0
          THEN [pc |-> "done", booking |-> booking, code |-> 400, body |-> NoBody]
          ELSE [pc |-> "checked", booking |-> booking, code |-> 0, body |-> NoBody]]
    /\ UNCHANGED <<timeSlots, bookings, users, inventory, now, startups, resp>>

\* Lines 118-122 of create_booking in worker r: the insert and its commit.
create_booking_commit(r) ==
    /\ reqs[r].pc = "checked"
    /\ bookings' = insert_booking(db_booking(reqs[r].booking))
    /\ reqs' = [reqs EXCEPT ![r] =
          [pc |-> "done", booking |-> reqs[r].booking, code |-> 200,
           body |-> db_booking(reqs[r].booking).id]]
    /\ UNCHANGED <<timeSlots, users, inventory, now, startups, resp>>

(* ------------------------------ inputs ------------------------------ *)

Dates == {"2024-06-01", "2024-06-02"}

\* Ids of the first two seeded slots, and an id no seeded slot has.
SlotIds == {1, 2, Len(slots) + 1}

BookingCreate(d, s) ==
    [customer_name |-> "Kim", email |-> "kim@mail.example", phone |-> "0900",
     booking_date |-> d, time_slot_id |-> s, notes |-> "none"]

BookingCreates == {BookingCreate(d, s) : d \in Dates, s \in SlotIds}

BookingIds == 1 .. MaxBookings + 1

InventoryCreate(d) ==
    [balls |-> 12, shoes |-> 8, jerseys |-> 20, gloves |-> 4, check_date |-> d]

InventoryCreates == {InventoryCreate(d) : d \in 1 .. MaxCheckDate}

\* A session of user i that lasts the whole run.
Session(i) ==
    Token(InitUsers[i].email, MaxTime + ACCESS_TOKEN_EXPIRE_MINUTES, TRUE)

\* Bearer tokens of requests: none, a session of each user, a token this
\* service did not sign, an expired one, one whose user is gone.
Unsigned == Token(InitUsers[1].email, MaxTime + ACCESS_TOKEN_EXPIRE_MINUTES, FALSE)
Expired == Token(InitUsers[1].email, -1, TRUE)
Orphan == Token(<<"eve", "field.example">>, MaxTime + ACCESS_TOKEN_EXPIRE_MINUTES, TRUE)

Sessions == {Session(i) : i \in DOMAIN InitUsers}

Bearers == Sessions \cup {NoToken, Unsigned, Expired, Orphan}

\* The bearer tokens of the staff endpoints' requests in SpecAdmin.
StaffBearers == Sessions \cup {NoToken, Unsigned}

LoginNames == Emails \cup {<<"eve", "field.example">>}

LoginPasswords == Passwords \cup {"guess"}

Pages == {<<0, 100>>, <<1, 1>>}

NoResponse == Response("none", 0, 0, <<>>, NoBody)

\* The store of a process that has started: the ten slots seeded.
Seeded == init_time_slots(<<>>)

(* --------------------- booking management: Spec --------------------- *)

Init ==
    /\ timeSlots = <<>>
    /\ bookings = <<>>
    /\ users = InitUsers
    /\ inventory = <<>>
    /\ now = 0
    /\ startups = 0
    /\ resp = NoResponse
    /\ reqs = <<>>

Next ==
    \/ startup_event(1)
    \/ \E booking \in BookingCreates : create_booking(booking)
    \/ \E token \in {Session(1)},
          id \in BookingIds, status \in BookingStatus :
          update_booking_status(token, id, status)

Spec == Init /\ [][Next]_vars

(* --------------- status updates as time passes: SpecClock ----------- *)

NextClock ==
    \/ startup_event(1)
    \/ create_booking(BookingCreate("2024-06-01", 1))
    \/ \E token \in {Session(3)},
          id \in BookingIds, status \in BookingStatus :
          update_booking_status(token, id, status)
    \/ Tick

SpecClock == Init /\ [][NextClock]_vars

(* --------------------------- login: SpecLogin ------------------------ *)

NextLogin ==
    \/ startup_event(1)
    \/ \E username \in LoginNames, password \in LoginPasswords :
          login(username, password)
    \/ \E token \in Bearers : get_latest_inventory(token)
    \/ Tick

SpecLogin == Init /\ [][NextLogin]_vars

(* ------------------- the staff endpoints: SpecAdmin ------------------ *)

\* A started process whose store holds one booking made earlier.
InitAdmin ==
    /\ timeSlots = Seeded
    /\ bookings = << [id |-> 1, customer_name |-> "Kim",
                      email |-> "kim@mail.example", phone |-> "0900",
                      booking_date |-> "2024-06-01", time_slot_id |-> 1,
                      notes |-> "none", status |-> BOOKED,
                      created_at |-> 0, updated_at |-> 0] >>
    /\ users = InitUsers
    /\ inventory = <<>>
    /\ now = 0
    /\ startups = 1
    /\ resp = NoResponse
    /\ reqs = <<>>

NextAdmin ==
    \/ \E token \in StaffBearers, page \in Pages :
          get_all_bookings(token, page[1], page[2])
    \/ \E token \in StaffBearers, id \in {1, 2}, status \in {BOOKED, DONE} :
          update_booking_status(token, id, status)
    \/ \E token \in StaffBearers, inv \in InventoryCreates :
          create_inventory_check(token, inv)
    \/ \E token \in StaffBearers : get_latest_inventory(token)

SpecAdmin == InitAdmin /\ [][NextAdmin]_vars

(* ------------------- concurrent workers: SpecRace -------------------- *)

Workers == 1 .. NumRequests

InitRace ==
    /\ timeSlots = Seeded
    /\ bookings = <<>>
    /\ users = InitUsers
    /\ inventory = <<>>
    /\ now = 0
    /\ startups = 1
    /\ resp = NoResponse
    /\ reqs = [r \in Workers |-> Idle]

NextRace ==
    \/ \E r \in Workers, booking \in BookingCreates :
          create_booking_check(r, booking)
    \/ \E r \in Workers : create_booking_commit(r)

SpecRace == InitRace /\ [][NextRace]_vars

(* ------------------------ start-up: SpecSeed ------------------------- *)

\* A row of the fixed table as direct administration may have left it.
Repriced(slot) == [slot EXCEPT !.price = slot.price + 50000]

RECURSIVE PreTable(_, _, _)
\* The table holding, in the order of the fixed table, the slots of keep, those
\* of edited with another price.
PreTable(keep, edited, i) ==
    IF i > Len(slots) THEN <<>>
    ELSE LET rest == PreTable(keep, edited, i + 1)
             slot == IF i \in edited THEN Repriced(slots[i]) ELSE slots[i]
         IN IF i \in keep THEN <<slot>> \o rest ELSE rest

Numbered(rows) == [k \in DOMAIN rows |-> TimeSlotRow(k, rows[k])]

PreTables ==
    {Numbered(PreTable(keep, edited, 1)) :
        keep \in {K \in SUBSET DOMAIN slots : Cardinality(K) <= MaxPreRows},
        edited \in SUBSET DOMAIN slots}

InitSeed ==
    /\ timeSlots \in PreTables
    /\ bookings = <<>>
    /\ users = InitUsers
    /\ inventory = <<>>
    /\ now = 0
    /\ startups = 0
    /\ resp = NoResponse
    /\ reqs = <<>>

NextSeed == startup_event(MaxStartups)

SpecSeed == InitSeed /\ [][NextSeed]_vars

(* ============================ the claims ============================ *)

HoldsSlot(row) == row.status \in {BOOKED, DEPOSIT_PAID}

\* The positions of the bookings of a date and slot.
BookingsOf(d, s) ==
    {i \in DOMAIN bookings :
        bookings[i].booking_date = d /\ bookings[i].time_slot_id = s}

SlotExists(id) == \E i \in DOMAIN timeSlots : timeSlots[i].id = id

\* C1: in every state reached by create-booking and update_status calls, no
\* two bookings whose status is Booked or Deposit Paid share the same
\* (booking_date, time_slot_id) pair.
C1_NoDoubleBooking ==
    \A i, j \in DOMAIN bookings :
        (i # j /\ HoldsSlot(bookings[i]) /\ HoldsSlot(bookings[j]))
            => \/ bookings[i].booking_date # bookings[j].booking_date
               \/ bookings[i].time_slot_id # bookings[j].time_slot_id

\* C2: a create-booking call for an existing slot and a date on which a
\* booking with status Booked or Deposit Paid holds that slot answers 400 and
\* leaves the bookings as they were.
C2_ConflictRejected ==
    [][\A b \in BookingCreates :
         ( /\ resp'.op = "create_booking"
           /\ resp'.arg = BookingKey(b)
           /\ create_booking(b)
           /\ SlotExists(b.time_slot_id)
           /\ \E i \in BookingsOf(b.booking_date, b.time_slot_id) :
                 HoldsSlot(bookings[i]) )
         => /\ resp'.code = 400
            /\ bookings' = bookings]_vars

\* A second request for a slot held by a Deposit Paid booking was refused.
C2_Witness ==
    /\ resp.op = "create_booking"
    /\ resp.code = 400
    /\ \E i \in DOMAIN bookings :
          /\ <<bookings[i].booking_date, bookings[i].time_slot_id>> = resp.arg
          /\ bookings[i].status = DEPOSIT_PAID

\* C4: when every booking of an existing slot and date has status Done,
\* Cancelled or Rescheduled, a create-booking call for them answers 200 and
\* appends exactly one booking, with status Booked, for that date and slot.
C4_FreedSlotBookable ==
    [][\A b \in BookingCreates :
         ( /\ resp'.op = "create_booking"
           /\ resp'.arg = BookingKey(b)
           /\ create_booking(b)
           /\ SlotExists(b.time_slot_id)
           /\ \A i \in BookingsOf(b.booking_date, b.time_slot_id) :
                 bookings[i].status \in {DONE, CANCELLED, RESCHEDULED} )
         => /\ resp'.code = 200
            /\ Len(bookings') = Len(bookings) + 1
            /\ \A i \in DOMAIN bookings : bookings'[i] = bookings[i]
            /\ bookings'[Len(bookings')].status = BOOKED
            /\ bookings'[Len(bookings')].booking_date = b.booking_date
            /\ bookings'[Len(bookings')].time_slot_id = b.time_slot_id
            /\ resp'.body = bookings'[Len(bookings')].id]_vars

\* A slot whose first booking was cancelled has been booked again.
C4_Witness ==
    /\ resp.op = "create_booking"
    /\ resp.code = 200
    /\ Len(bookings) = 2
    /\ bookings[1].status = CANCELLED
    /\ bookings[2].status = BOOKED
    /\ bookings[1].booking_date = bookings[2].booking_date
    /\ bookings[1].time_slot_id = bookings[2].time_slot_id

\* C5: a create-booking call whose time_slot_id names no time slot answers 404
\* and inserts nothing, for every date and whatever bookings exist.
C5_UnknownSlotNotFound ==
    [][\A b \in BookingCreates :
         ( /\ resp'.op = "create_booking"
           /\ resp'.arg = BookingKey(b)
           /\ create_booking(b)
           /\ ~SlotExists(b.time_slot_id) )
         => /\ resp'.code = 404
            /\ bookings' = bookings]_vars

\* A request for an unknown slot was refused on a date that has a booking.
C5_Witness ==
    /\ resp.op = "create_booking"
    /\ resp.code = 404
    /\ ~SlotExists(resp.arg[2])
    /\ \E i \in DOMAIN bookings :
          bookings[i].booking_date = resp.arg[1] /\ HoldsSlot(bookings[i])

\* C6: update_status by a user whose role is Admin, Manager or Owner answers
\* 200 for an existing booking id, whatever its status and the new one, sets
\* that booking's status and its updated timestamp and changes no other field
\* and no other booking; for an id no booking has it answers 404 and changes no
\* booking.
C6_UpdateStatusFrame ==
    [][( /\ resp'.op = "update_booking_status"
         /\ resp'.user # 0
         /\ users[resp'.user].role \in UserRole
         /\ update_booking_status(Session(resp'.user), resp'.arg[1],
                                  resp'.arg[2]) )
       => IF \E i \in DOMAIN bookings : bookings[i].id = resp'.arg[1]
          THEN /\ resp'.code = 200
               /\ DOMAIN bookings' = DOMAIN bookings
               /\ \A i \in DOMAIN bookings :
                     bookings'[i] =
                        IF bookings[i].id = resp'.arg[1]
                        THEN [bookings[i] EXCEPT !.status = resp'.arg[2],
                                                 !.updated_at = now]
                        ELSE bookings[i]
          ELSE /\ resp'.code = 404
               /\ bookings' = bookings]_vars

\* The first of two bookings was moved to Done after the second was made, at
\* a later time than it was created.
C6_Witness ==
    /\ resp.op = "update_booking_status"
    /\ resp.code = 200
    /\ resp.arg = <<1, DONE>>
    /\ Len(bookings) = 2
    /\ bookings[1].status = DONE
    /\ bookings[1].updated_at > bookings[1].created_at
    /\ bookings[2].status = BOOKED

StoreUnchanged ==
    /\ timeSlots' = timeSlots
    /\ bookings' = bookings
    /\ users' = users
    /\ inventory' = inventory

\* C7: for a caller the token resolves to, inventory-create answers 403 exactly
\* when the role is not Admin or Manager, and otherwise inserts a row; booking
\* listing, status update and inventory-latest answer 403 exactly when the role
\* is not Admin, Manager or Owner; a call answered 403 changes nothing stored.
C7_RoleSets ==
    [][resp'.user # 0
       => LET role == users[resp'.user].role IN
          /\ resp'.op = "create_inventory_check"
                => /\ (resp'.code = 403) <=> (role \notin {ADMIN, MANAGER})
                   /\ role \in {ADMIN, MANAGER}
                         => /\ resp'.code = 200
                            /\ Len(inventory') = Len(inventory) + 1
                            /\ inventory'[Len(inventory')].updated_by = resp'.user
          /\ resp'.op \in {"get_all_bookings", "update_booking_status",
                           "get_latest_inventory"}
                => (resp'.code = 403) <=> (role \notin {ADMIN, MANAGER, OWNER})
          /\ resp'.code = 403 => StoreUnchanged]_vars

\* An Owner was refused by inventory-create after rows had been recorded.
C7_Witness ==
    /\ resp.op = "create_inventory_check"
    /\ resp.code = 403
    /\ users[resp.user].role = OWNER
    /\ inventory # <<>>

\* The account an e-mail and password belong to, 0 if none.
AccountOf(username, password) ==
    IF \E i \in DOMAIN Accounts :
          /\ users[i].email = username
          /\ Accounts[i].password = password
    THEN CHOOSE i \in DOMAIN Accounts :
            users[i].email = username /\ Accounts[i].password = password
    ELSE 0

\* C8: a login with an unknown e-mail or with a password that is not the
\* user's answers 401, issues no token and leaves every user's last-login as it
\* was; the users change only by a login answered 200, and then only the
\* last-login of the user who logged in.
C8_FailedLoginKeepsLastLogin ==
    [][/\ \A username \in LoginNames, password \in LoginPasswords :
            (login(username, password) /\ AccountOf(username, password) = 0)
            => /\ resp'.op = "login"
               /\ resp'.code = 401
               /\ resp'.body = NoBody
               /\ users' = users
       /\ users' # users
            => /\ resp'.op = "login"
               /\ resp'.code = 200
               /\ resp'.body.sub = resp'.arg
               /\ \E u \in DOMAIN users :
                     /\ users[u].email = resp'.arg
                     /\ users' = [users EXCEPT ![u].last_login = now]]_vars

\* A login of the first user was refused at a time after that user's last
\* successful login, which is still the one recorded.
C8_Witness ==
    /\ resp.op = "login"
    /\ resp.code = 401
    /\ resp.arg = users[1].email
    /\ users[1].last_login = 0
    /\ now > 0

\* C9: inventory-latest, for a caller it admits, answers 404 exactly when no
\* row exists and otherwise returns a row whose check_date is the maximum of
\* all rows; the inventory rows are only appended to.
C9_LatestIsMaxDate ==
    [][/\ (resp'.op = "get_latest_inventory" /\ resp'.code \notin {401, 403})
            => /\ (resp'.code = 404) <=> (inventory = <<>>)
               /\ inventory # <<>>
                     => /\ resp'.code = 200
                        /\ \E i \in DOMAIN inventory :
                              /\ inventory[i].id = resp'.body
                              /\ \A j \in DOMAIN inventory :
                                    inventory[j].check_date
                                        <= inventory[i].check_date
       /\ Len(inventory') >= Len(inventory)
       /\ \A i \in DOMAIN inventory : inventory'[i] = inventory[i]]_vars

\* The latest row is the one inserted first, not the one inserted last.
C9_Witness ==
    /\ resp.op = "get_latest_inventory"
    /\ resp.code = 200
    /\ Len(inventory) = 2
    /\ inventory[1].check_date > inventory[2].check_date
    /\ resp.body = inventory[1].id

\* C10: a start-up on an empty store leaves exactly the ten fixed time slots;
\* every start-up keeps each row it finds as it is, also a row whose price is
\* not that of the fixed table, and leaves ten rows with distinct shift names;
\* a start-up after the first changes nothing.
C10_SeedingIdempotent ==
    [][startups' = startups + 1
       => /\ timeSlots = <<>> => timeSlots' = Numbered(slots)
          /\ \A i \in DOMAIN timeSlots :
                i \in DOMAIN timeSlots' /\ timeSlots'[i] = timeSlots[i]
          /\ Len(timeSlots') = Len(slots)
          /\ \A i, j \in DOMAIN timeSlots' :
                timeSlots'[i].shift_name = timeSlots'[j].shift_name => i = j
          /\ startups >= 1 => timeSlots' = timeSlots]_vars

\* Two start-ups have run over a store that held a repriced row.
C10_Witness ==
    /\ startups = 2
    /\ Len(timeSlots) = Len(slots)
    /\ \E i \in DOMAIN timeSlots, k \in DOMAIN slots :
          /\ timeSlots[i].shift_name = slots[k].shift_name
          /\ timeSlots[i].price # slots[k].price

\* C3: a worker whose look-ups found the slot free always inserts its row and
\* answers 200, also when another worker has committed a booking for the same
\* date and slot in between: the store rejects no insert.
C3_CheckedRequestInserts ==
    [][\A r \in DOMAIN reqs :
         (reqs[r].pc = "checked" /\ reqs'[r].pc = "done")
         => /\ reqs'[r].code = 200
            /\ Len(bookings') = Len(bookings) + 1
            /\ bookings'[Len(bookings')].id = reqs'[r].body
            /\ bookings'[Len(bookings')].status = BOOKED
            /\ bookings'[Len(bookings')].booking_date
                  = reqs[r].booking.booking_date
            /\ bookings'[Len(bookings')].time_slot_id
                  = reqs[r].booking.time_slot_id]_vars

\* Two workers answered 200 for the same date and slot, and both rows are
\* Booked.
C3_Witness ==
    \E r1, r2 \in DOMAIN reqs :
        /\ r1 # r2
        /\ reqs[r1].pc = "done" /\ reqs[r1].code = 200
        /\ reqs[r2].pc = "done" /\ reqs[r2].code = 200
        /\ reqs[r1].booking = reqs[r2].booking
        /\ \E i, j \in DOMAIN bookings :
              /\ i # j
              /\ bookings[i].id = reqs[r1].body
              /\ bookings[j].id = reqs[r2].body
              /\ bookings[i].status = BOOKED /\ bookings[j].status = BOOKED
              /\ bookings[i].booking_date = bookings[j].booking_date
              /\ bookings[i].time_slot_id = bookings[j].time_slot_id

====
